---- MODULE Spec2Model ----
(***************************************************************************)
(* A model of tiled's file-sequence adapter (tiled/adapters/sequence.py)   *)
(* and of the table client's partitioned read/write protocol               *)
(* (tiled/client/dataframe.py) against a consolidated node                 *)
(* (tiled/_tests/test_consolidated.py).                                    *)
(***************************************************************************)
EXTENDS Integers, Sequences, FiniteSets, TLC

\* ------------------------------------------------------------------------
\* Bounds of the model
\* ------------------------------------------------------------------------

\* the largest number of files in a sequence
MaxFiles == 3

\* the length of every trailing dimension of a slab
SlabLen == 2

\* the largest number of partitions of a table
MaxPartitions == 2

\* ------------------------------------------------------------------------
\* State
\* ------------------------------------------------------------------------

VARIABLES
    filepaths,  \* FileSequenceAdapter.filepaths: the files, in sequence order
    slab,       \* the shape S of the array every file holds
    structure,  \* FileSequenceAdapter._structure
    call,       \* the latest call on the adapter and its arguments
    out,        \* the outcome of that call
    assets,     \* the assets of the DataSource the adapter was built from
    history,    \* the methods called on the adapter since its construction
    node,       \* the consolidated node "x" on the server
    wrote,      \* what the client supplied: the metadata, each part's dataset
    got,        \* what the client's latest read of the node returned
    table,      \* a partitioned table DataSource on the server
    writers,    \* the clients writing its partitions, and their requests
    sent,       \* per partition: how often it was written, the latest payload
    frame       \* what the client's latest full read of the table returned

seqVars == <<filepaths, slab, structure, call, out, assets, history>>

nodeVars == <<node, wrote, got>>

tableVars == <<table, writers, sent, frame>>

\* ------------------------------------------------------------------------
\* Python values: selectors (NDSlice) and numpy arrays
\* ------------------------------------------------------------------------

\* an optional integer: <<>> is None, <<i>> is the integer i
NoneInt == << >>

SomeInt(i) == <<i>>

EllipsisV == [t |-> "Ellipsis"]

IntV(i) == [t |-> "int", v |-> i]

\* builtins.slice(start, stop) with no step
SliceV(a, b) == [t |-> "slice", start |-> a, stop |-> b]

TupleV(items) == [t |-> "tuple", items |-> items]

\* values of a type read() does not support
NoneV == [t |-> "NoneType"]

ListV == [t |-> "list"]

Max2(a, b) == IF a >= b THEN a ELSE b

\* the index tuples of an array of the given shape (zero-based)
Coords(shape) ==
    LET top == IF Len(shape) = 0 THEN 0
               ELSE CHOOSE m \in {shape[d] : d \in 1..Len(shape)} :
                        \A d \in 1..Len(shape) : shape[d] <= m
    IN {idx \in [1..Len(shape) -> 0..Max2(top - 1, 0)] :
            \A d \in 1..Len(shape) : idx[d] < shape[d]}

\* the outcome of a call: the exception raised ("none" when it returned), the
\* returned array, the files opened, and the order of loads and indexings
Returned(shape, data, opened, trace) ==
    [exc |-> "none", shape |-> shape, data |-> data,
     opened |-> opened, trace |-> trace]

Raised(exc, opened, trace) ==
    [exc |-> exc, shape |-> << >>, data |-> [idx \in {} |-> << >>],
     opened |-> opened, trace |-> trace]

\* slice.indices(n) for a slice without step: the first index and the length
SliceIndices(sl, n) ==
    LET clamp(v) == IF v < 0 THEN (IF v + n < 0 THEN 0 ELSE v + n)
                    ELSE IF v >= n THEN n ELSE v
        lo == IF sl.start = NoneInt THEN 0 ELSE clamp(sl.start[1])
        hi == IF sl.stop = NoneInt THEN n ELSE clamp(sl.stop[1])
    IN [lo |-> lo, len |-> Max2(hi - lo, 0)]

\* np.squeeze(arr, 0): drop the leading dimension, which must have length 1
Squeeze0(r) ==
    IF r.exc # "none" THEN r
    ELSE IF Len(r.shape) = 0 \/ r.shape[1] # 1
    THEN Raised("ValueError", r.opened, r.trace)
    ELSE Returned(Tail(r.shape),
                  [idx \in Coords(Tail(r.shape)) |-> r.data[<<0>> \o idx]],
                  r.opened, r.trace)

\* np.atleast_1d(arr): a 0-dimensional array becomes a 1-element vector
AtLeast1d(r) ==
    IF r.exc # "none" \/ Len(r.shape) > 0 THEN r
    ELSE Returned(<<1>>, [idx \in Coords(<<1>>) |-> r.data[<< >>]],
                  r.opened, r.trace)

\* arr[tuple(items)]: numpy basic indexing by integers, slices and Ellipsis
\* (items of other types, None or lists, are not among the modelled inputs)
GetItem(r, items) ==
    IF r.exc # "none" THEN r
    ELSE
    LET nd == Len(r.shape)
        tr == Append(r.trace, "getitem")
        ells == {k \in 1..Len(items) : items[k].t = "Ellipsis"}
        nExplicit == Len(items) - Cardinality(ells)
    IN IF Cardinality(ells) > 1 \/ nExplicit > nd
       THEN Raised("IndexError", r.opened, tr)
       ELSE
       LET fill == nd - nExplicit
           ePos == IF ells = {} THEN Len(items) + 1 ELSE CHOOSE k \in ells : TRUE
           \* the selector of dimension d after the Ellipsis is expanded
           sel(d) == IF d < ePos THEN items[d]
                     ELSE IF d < ePos + fill THEN SliceV(NoneInt, NoneInt)
                     ELSE items[d - fill + (IF ells = {} THEN 0 ELSE 1)]
           outOfRange == {d \in 1..nd : /\ sel(d).t = "int"
                                        /\ \/ sel(d).v < 0 - r.shape[d]
                                           \/ sel(d).v >= r.shape[d]}
       IN IF outOfRange # {}
          THEN Raised("IndexError", r.opened, tr)
          ELSE
          LET kept == {d \in 1..nd : sel(d).t = "slice"}
              rank(d) == Cardinality({e \in kept : e <= d})
              dimOf(k) == CHOOSE d \in kept : rank(d) = k
              rng(d) == SliceIndices(sel(d), r.shape[d])
              shape == [k \in 1..Cardinality(kept) |-> rng(dimOf(k)).len]
              src(idx) == [d \in 1..nd |->
                              IF sel(d).t = "int"
                              THEN (IF sel(d).v < 0 THEN sel(d).v + r.shape[d]
                                    ELSE sel(d).v)
                              ELSE rng(d).lo + idx[rank(d)]]
          IN Returned(shape, [idx \in Coords(shape) |-> r.data[src(idx)]],
                      r.opened, tr)

\* ------------------------------------------------------------------------
\* FileSequenceAdapter
\* ------------------------------------------------------------------------

\* the element at index idx of the slab stored in file f
Pixel(f, idx) == <<f, idx>>

\* self.filepaths[p] for a zero-based position p
FileAt(fp, p) == fp[p + 1]

\* _load_from_files(slice): the slabs of the selected files stacked along a
\* new leading dimension; the files are selected as a Python list is indexed
load_from_files(fp, S, arg) ==
    LET n == Len(fp)
    IN IF arg.t = "int"
       THEN IF arg.v < 0 - n \/ arg.v >= n
            THEN Raised("IndexError", {}, << >>)
            ELSE LET p == IF arg.v < 0 THEN arg.v + n ELSE arg.v
                 IN Returned(<<1>> \o S,
                             [idx \in Coords(<<1>> \o S) |->
                                 Pixel(FileAt(fp, p), Tail(idx))],
                             {FileAt(fp, p)}, <<"load">>)
       ELSE LET r == SliceIndices(arg, n)
            IN Returned(<<r.len>> \o S,
                        [idx \in Coords(<<r.len>> \o S) |->
                            Pixel(FileAt(fp, r.lo + idx[1]), Tail(idx))],
                        {FileAt(fp, r.lo + k) : k \in 0..(r.len - 1)},
                        <<"load">>)

\* the default argument of _load_from_files: slice(None)
AllFiles == SliceV(NoneInt, NoneInt)

\* read(slice=i) for an integer: one file, leading dimension dropped
ReadInt(fp, S, sel) == Squeeze0(load_from_files(fp, S, sel))

\* a slip: every file is loaded and the range is taken in memory
ReadSliceLoadAll(fp, S, sel) ==
    LET r == GetItem(load_from_files(fp, S, AllFiles), <<sel>>)
    IN [r EXCEPT !.trace = <<"load">>]

\* read(slice=s) for a builtins.slice: the files of the range
ReadSlice(fp, S, sel) == load_from_files(fp, S, sel)

\* a slip: an unsupported selector falls back to reading everything
ReadUnsupportedFallback(fp, S, sel) == load_from_files(fp, S, AllFiles)

\* read(): a selector that is no Ellipsis, int, slice or tuple
ReadUnsupported(fp, S, sel) == Raised("RuntimeError", {}, << >>)

\* a slip: the whole tuple is applied in memory to the stack of every file
ReadLeftAxisLoadAll(fp, S, left_axis, the_rest) ==
    IF left_axis.t \in {"int", "Ellipsis", "slice"}
    THEN AtLeast1d(GetItem(load_from_files(fp, S, AllFiles),
                           <<left_axis>> \o the_rest))
    ELSE Raised("UnboundLocalError", {}, << >>)

\* the branches on the leading element of a tuple of two or more selectors
\* and the indexing of the loaded array by the rest
ReadLeftAxis(fp, S, left_axis, the_rest) ==
    IF left_axis.t = "int"
    THEN AtLeast1d(GetItem(Squeeze0(load_from_files(fp, S, left_axis)), the_rest))
    ELSE IF left_axis.t = "Ellipsis"
    THEN AtLeast1d(GetItem(load_from_files(fp, S, AllFiles),
                           <<EllipsisV>> \o the_rest))
    ELSE IF left_axis.t = "slice"
    THEN AtLeast1d(GetItem(ReadSlice(fp, S, left_axis), the_rest))
    ELSE \* no branch assigns arr: arr[tuple(the_rest)] reads an unbound local
         Raised("UnboundLocalError", {}, << >>)

RECURSIVE read(_, _, _)
read(fp, S, sel) ==
    IF sel.t = "Ellipsis" THEN load_from_files(fp, S, AllFiles)
    ELSE IF sel.t = "int" THEN ReadInt(fp, S, sel)
    ELSE IF sel.t = "slice" THEN ReadSlice(fp, S, sel)
    ELSE IF sel.t = "tuple"
    THEN IF Len(sel.items) = 0 THEN load_from_files(fp, S, AllFiles)
         ELSE IF Len(sel.items) = 1 THEN read(fp, S, sel.items[1])
         ELSE ReadLeftAxis(fp, S, Head(sel.items), Tail(sel.items))
    ELSE ReadUnsupported(fp, S, sel)

\* a slip: only the first trailing block index is looked at
AnyTrailingFirstOnly(block) == Len(block) >= 2 /\ block[2] # 0

\* any(block[1:])
AnyTrailing(block) == \E k \in 2..Len(block) : block[k] # 0

\* arr[slice] in read_block: a tuple indexes by its items, anything else alone
AsItems(sl) == IF sl.t = "tuple" THEN sl.items ELSE <<sl>>

\* a slip: the file after the addressed one is read
read_block_off_by_one(fp, S, block, sl) ==
    IF AnyTrailing(block)
    THEN Raised("IndexError", {}, << >>)
    ELSE GetItem(read(fp, S, SliceV(SomeInt(block[1] + 1), SomeInt(block[1] + 2))),
                 AsItems(sl))

read_block(fp, S, block, sl) ==
    IF AnyTrailing(block)
    THEN Raised("IndexError", {}, << >>)
    ELSE GetItem(read(fp, S, SliceV(SomeInt(block[1]), SomeInt(block[1] + 1))),
                 AsItems(sl))

\* a slip: the leading dimension is declared as one chunk of all the files
InferStructureOneChunk(fp, S) ==
    LET dat0 == load_from_files(fp, S, IntV(0))
        shape == <<Len(fp)>> \o Tail(dat0.shape)
    IN [shape |-> shape,
        chunks |-> <<<<shape[1]>>>> \o
                   [d \in 1..(Len(shape) - 1) |-> <<shape[d + 1]>>]]

\* __init__ without a structure: shape and chunks inferred from the first file
InferStructure(fp, S) ==
    LET dat0 == load_from_files(fp, S, IntV(0))
        shape == <<Len(fp)>> \o Tail(dat0.shape)
    IN [shape |-> shape,
        chunks |-> <<[k \in 1..shape[1] |-> 1]>> \o
                   [d \in 1..(Len(shape) - 1) |-> <<shape[d + 1]>>]]

\* ------------------------------------------------------------------------
\* The adapter as a state machine: one action per call
\* ------------------------------------------------------------------------

\* the shapes a slab may have: a vector or a matrix
SlabShapes == {<<SlabLen>>, <<SlabLen, SlabLen>>}

\* integers given as leading index, slice bound or block index
LeadInts == (0 - (MaxFiles + 1))..(MaxFiles + 1)

OptLeadInts == {NoneInt} \cup {SomeInt(i) : i \in LeadInts}

\* what a call may pass for the leading dimension
Leads ==
    {EllipsisV} \cup {IntV(i) : i \in LeadInts}
    \cup {SliceV(a, b) : a \in OptLeadInts, b \in OptLeadInts}
    \cup {NoneV, ListV, TupleV(<<IntV(0)>>)}

\* what a call may pass for a trailing dimension
Trailing ==
    {EllipsisV, IntV(0), IntV(-1), IntV(SlabLen),
     SliceV(NoneInt, NoneInt), SliceV(SomeInt(1), NoneInt)}

ReadSelectors ==
    Leads \cup {TupleV(<< >>)}
    \cup {TupleV(<<l>>) : l \in Leads}
    \cup {TupleV(<<l, t>>) : l \in Leads, t \in Trailing}
    \cup {TupleV(<<l, t, u>>) : l \in Leads, t \in Trailing, u \in Trailing}

\* block index tuples: one index per dimension of the stacked array
Blocks(S) ==
    {<<b>> \o rest : b \in LeadInts, rest \in [1..Len(S) -> {0, 1}]}

BlockSlices ==
    {EllipsisV, IntV(0), SliceV(NoneInt, NoneInt), SliceV(SomeInt(1), NoneInt),
     TupleV(<<IntV(0), IntV(0)>>), TupleV(<<EllipsisV, IntV(1)>>)}

NoCall == [op |-> "__init__", sel |-> EllipsisV, block |-> << >>]

NoOutcome == Raised("nocall", {}, << >>)

Idle == call = NoCall

\* the adapter is used by one caller at a time: a call starts once the
\* outcome of the previous one has been taken
Read(sel) ==
    /\ Idle
    /\ call' = [op |-> "read", sel |-> sel, block |-> << >>]
    /\ out' = read(filepaths, slab, sel)
    /\ history' = history \cup {"read"}
    /\ UNCHANGED <<filepaths, slab, structure, assets, nodeVars, tableVars>>

ReadBlock(block, sl) ==
    /\ Idle
    /\ call' = [op |-> "read_block", sel |-> sl, block |-> block]
    /\ out' = read_block(filepaths, slab, block, sl)
    /\ history' = history \cup {"read_block"}
    /\ UNCHANGED <<filepaths, slab, structure, assets, nodeVars, tableVars>>

\* the caller takes the outcome; the adapter itself is left as it was
Return ==
    /\ call # NoCall
    /\ call' = NoCall
    /\ out' = NoOutcome
    /\ UNCHANGED <<filepaths, slab, structure, assets, history, nodeVars, tableVars>>

\* the outcome of structure(): the descriptor, no file opened
Described(descriptor) ==
    [exc |-> "none", shape |-> << >>, data |-> [idx \in {} |-> << >>],
     opened |-> {}, trace |-> << >>, descriptor |-> descriptor]

\* structure(): returns self._structure
GetStructure ==
    /\ Idle
    /\ call' = [op |-> "structure", sel |-> EllipsisV, block |-> << >>]
    /\ out' = Described(structure)
    /\ UNCHANGED <<filepaths, slab, structure, assets, history, nodeVars, tableVars>>

NextSeq ==
    \/ Idle /\ \E sel \in ReadSelectors : Read(sel)
    \/ Idle /\ \E block \in Blocks(slab), sl \in BlockSlices : ReadBlock(block, sl)
    \/ GetStructure
    \/ Return

vars == <<seqVars, nodeVars, tableVars>>

\* ------------------------------------------------------------------------
\* An adapter built from the assets of an externally managed DataSource
\* ------------------------------------------------------------------------

\* the URI of the file that holds slab f of the image stack
FileUri(f) == <<"file", "localhost", f>>

\* Asset(data_uri, is_directory=False, parameter="data_uris", num)
Asset(data_uri, num) ==
    [data_uri |-> data_uri, is_directory |-> FALSE,
     parameter |-> "data_uris", num |-> num]

\* path_from_uri: the path of a file:// URI
path_from_uri(data_uri) == data_uri[3]

\* from_assets(assets, structure): the paths of the assets as they are listed
from_assets(listed) ==
    [k \in 1..Len(listed) |-> path_from_uri(listed[k].data_uri)]

\* the orders in which n assets may be listed
Orderings(n) ==
    {order \in [1..n -> 1..n] : \A j, k \in 1..n : order[j] = order[k] => j = k}

\* the assets of a sequence of n files, slab f in the asset of num f + 1,
\* listed in any order
AssetLists(n) ==
    {[k \in 1..n |-> Asset(FileUri(order[k] - 1), order[k])] : order \in Orderings(n)}

\* the ArrayStructure declared for the DataSource
DeclaredStructure(n, S) ==
    [shape |-> <<n>> \o S,
     chunks |-> <<[k \in 1..n |-> 1]>> \o [d \in 1..Len(S) |-> <<S[d]>>]]

\* ------------------------------------------------------------------------
\* Tables on the wire: DataFrames and their Arrow serialization
\* ------------------------------------------------------------------------

\* a pandas DataFrame: named columns and rows of cells
DataFrame(columns, rows) == [columns |-> columns, rows |-> rows]

\* serialize_arrow(df, {}): the Arrow form is columnar, one array per field
serialize_arrow(df) ==
    [fields |-> df.columns,
     num_rows |-> Len(df.rows),
     arrays |-> [c \in 1..Len(df.columns) |->
                    [r \in 1..Len(df.rows) |-> df.rows[r][c]]]]

\* deserialize_arrow(content): back to rows
deserialize_arrow(content) ==
    DataFrame(content.fields,
              [r \in 1..content.num_rows |->
                  [c \in 1..Len(content.fields) |-> content.arrays[c][r]]])

\* the columns argument of the client's reads: None, or a list of names
NoColumns == [some |-> FALSE, names |-> << >>]

Columns(names) == [some |-> TRUE, names |-> names]

\* df[columns]: the named columns, in the order asked for
SelectColumns(df, names) ==
    LET at(name) == CHOOSE c \in 1..Len(df.columns) : df.columns[c] = name
    IN DataFrame(names,
                 [r \in 1..Len(df.rows) |->
                     [k \in 1..Len(names) |-> df.rows[r][at(names[k])]]])

\* ------------------------------------------------------------------------
\* The server's storage of one table DataSource
\* ------------------------------------------------------------------------

\* a partition nothing was written to
Unwritten == [written |-> FALSE, columns |-> << >>, rows |-> << >>]

StoredFrame(df) == [written |-> TRUE, columns |-> df.columns, rows |-> df.rows]

\* PUT of a table payload: the full link replaces the whole table (its rows go
\* to the first partition), the partition link replaces one partition
ServerPutTable(store, req) ==
    LET df == deserialize_arrow(req.content)
    IN IF req.link = "full"
       THEN [i \in DOMAIN store |->
                IF i = 0 THEN StoredFrame(df)
                ELSE StoredFrame(DataFrame(df.columns, << >>))]
       ELSE IF req.index \in DOMAIN store
       THEN [store EXCEPT ![req.index] = StoredFrame(df)]
       ELSE store

\* GET of one partition, optionally of some of its fields
ServerGetPartition(store, params) ==
    IF params.partition \notin DOMAIN store \/ ~store[params.partition].written
    THEN [status |-> 404, content |-> serialize_arrow(DataFrame(<< >>, << >>))]
    ELSE LET df == DataFrame(store[params.partition].columns,
                             store[params.partition].rows)
         IN [status |-> 200,
             content |-> serialize_arrow(
                 IF params.field = << >> THEN df
                 ELSE SelectColumns(df, params.field))]

\* ------------------------------------------------------------------------
\* _DaskDataFrameClient
\* ------------------------------------------------------------------------

\* a slip: only the header of the dataframe is sent
client_write_header_only(df) ==
    [method |-> "PUT", link |-> "full", index |-> 0,
     content |-> serialize_arrow(DataFrame(df.columns, << >>))]

\* write(dataframe): one PUT of the serialized dataframe to the full link
client_write(df) ==
    [method |-> "PUT", link |-> "full", index |-> 0,
     content |-> serialize_arrow(df)]

\* write_partition(dataframe, partition): one PUT to the partition's link
client_write_partition(df, partition) ==
    [method |-> "PUT", link |-> "partition", index |-> partition,
     content |-> serialize_arrow(df)]

ClientError == [ok |-> FALSE, value |-> DataFrame(<< >>, << >>)]

\* _get_partition(partition, columns): GET with the partition and, when
\* columns are given, the fields; handle_error raises on a failure status
get_partition(store, partition, columns) ==
    LET params == [partition |-> partition,
                   field |-> IF columns.some THEN columns.names ELSE << >>]
        resp == ServerGetPartition(store, params)
    IN IF resp.status # 200 THEN ClientError
       ELSE [ok |-> TRUE, value |-> deserialize_arrow(resp.content)]

\* the rows of the fetched partitions in the order of the given indices
RECURSIVE ConcatRows(_, _)
ConcatRows(fetched, order) ==
    IF order = << >> THEN << >>
    ELSE fetched[Head(order)].value.rows \o ConcatRows(fetched, Tail(order))

\* a slip: the partitions are put together last to first
client_read_reversed(store, npartitions, columns) ==
    LET fetched == [p \in 0..(npartitions - 1) |-> get_partition(store, p, columns)]
        order == [k \in 1..npartitions |-> npartitions - k]
    IN IF \E p \in DOMAIN fetched : ~fetched[p].ok THEN ClientError
       ELSE [ok |-> TRUE,
             value |-> DataFrame(fetched[0].value.columns,
                                 ConcatRows(fetched, order))]

\* read(columns) computed: one task per partition in range(npartitions), the
\* partitions put together in index order, the columns selected at the end
client_read(store, npartitions, columns) ==
    LET fetched == [p \in 0..(npartitions - 1) |-> get_partition(store, p, columns)]
        order == [k \in 1..npartitions |-> k - 1]
        whole == DataFrame(fetched[0].value.columns, ConcatRows(fetched, order))
    IN IF \E p \in DOMAIN fetched : ~fetched[p].ok THEN ClientError
       ELSE [ok |-> TRUE,
             value |-> IF columns.some THEN SelectColumns(whole, columns.names)
                       ELSE whole]

\* the query parameters of the GET of one partition: one field parameter per
\* requested column, none when columns is None or empty
partition_params(partition, columns) ==
    [partition |-> partition,
     field |-> IF columns.some /\ columns.names # << >> THEN columns.names
               ELSE << >>]

\* meta[columns]: selecting a column the structure does not have raises
MetaHas(structure_columns, columns) ==
    \A k \in DOMAIN columns.names :
        \E c \in DOMAIN structure_columns : structure_columns[c] = columns.names[k]

NoFetch(exc) ==
    [exc |-> exc, requests |-> << >>, ok |-> FALSE, value |-> DataFrame(<< >>, << >>)]

\* a slip: the partition index is not compared with npartitions
client_read_partition_unchecked(store, npartitions, structure_columns, partition, columns) ==
    IF columns.some /\ ~MetaHas(structure_columns, columns)
    THEN NoFetch("KeyError")
    ELSE LET fetched == get_partition(store, partition, columns)
         IN [exc |-> IF fetched.ok THEN "none" ELSE "ClientError",
             requests |-> <<partition_params(partition, columns)>>,
             ok |-> fetched.ok,
             value |-> fetched.value]

\* DataFrameClient.read_partition(partition, columns): the index is checked
\* against npartitions, the meta is narrowed to the columns, and computing
\* the one delayed task fetches the partition
client_read_partition(store, npartitions, structure_columns, partition, columns) ==
    IF ~(0 <= partition /\ partition < npartitions)
    THEN NoFetch("IndexError")
    ELSE IF columns.some /\ ~MetaHas(structure_columns, columns)
    THEN NoFetch("KeyError")
    ELSE LET fetched == get_partition(store, partition, columns)
         IN [exc |-> IF fetched.ok THEN "none" ELSE "ClientError",
             requests |-> <<partition_params(partition, columns)>>,
             ok |-> fetched.ok,
             value |-> fetched.value]

\* ------------------------------------------------------------------------
\* The consolidated node "x" of the test fixture
\* ------------------------------------------------------------------------

\* the parts the fixture creates, one or two per structure family
Parts == {"table1", "table2", "A1", "AWK", "SPS"}

Family(part) ==
    IF part \in {"table1", "table2"} THEN "table"
    ELSE IF part = "A1" THEN "array"
    ELSE IF part = "AWK" THEN "awkward"
    ELSE "sparse"

\* datasets that fit each part's declared structure
Datasets(part) ==
    IF part = "table1"
    THEN {DataFrame(<<"A", "B">>, <<<<1, 10>>, <<2, 20>>, <<3, 30>>>>),
          DataFrame(<<"A", "B">>, <<<<3, 30>>, <<1, 10>>, <<2, 20>>>>)}
    ELSE IF part = "table2"
    THEN {DataFrame(<<"C", "D", "E">>, <<<<4, 40, 0>>, <<5, 50, 0>>>>),
          DataFrame(<<"C", "D", "E">>, <<<<5, 50, 0>>, <<4, 40, 0>>>>)}
    ELSE IF part = "A1"
    THEN {[shape |-> <<2, 2>>, values |-> <<1, 2, 3, 4>>],
          [shape |-> <<2, 2>>, values |-> <<4, 3, 2, 1>>]}
    ELSE IF part = "AWK"
    THEN {[offsets |-> <<0, 2, 2, 3>>, content |-> <<11, 22, 33>>],
          [offsets |-> <<0, 2, 2, 3>>, content |-> <<33, 22, 11>>]}
    ELSE {[coords |-> <<<<0, 1>>, <<1, 0>>>>, data |-> <<7, 8>>],
          [coords |-> <<<<0, 0>>, <<1, 1>>>>, data |-> <<7, 8>>]}

\* the metadata a node may be created with
Metadatas ==
    {[md_key1 |-> "md_val1", md_key2 |-> 2], [other_key |-> "x"]}

NoData == [none |-> TRUE]

NoNode ==
    [created |-> FALSE, metadata |-> NoData,
     stores |-> [p \in Parts |-> [i \in {0} |-> Unwritten]]]

\* create_consolidated(data_sources, key="x", metadata=md): the node with its
\* metadata and one freshly allocated, unwritten store per part
create_consolidated(parts, metadata) ==
    [created |-> TRUE, metadata |-> metadata,
     stores |-> [p \in parts |-> [i \in {0} |-> Unwritten]]]

\* the request by which the client writes a part in full: the table client's
\* write, write_block of the only block of an array, write of the buffers of
\* an awkward array, write of the coordinates and data of a sparse array
PartWriteRequest(part, data) ==
    IF Family(part) = "table" THEN client_write(data)
    ELSE IF Family(part) = "array"
    THEN [method |-> "PUT", link |-> "block", index |-> 0, content |-> data]
    ELSE [method |-> "PUT", link |-> "full", index |-> 0, content |-> data]

\* a slip: a write to a part resets the metadata of its node
ServerPutClearsMetadata(nd, part, req) ==
    [nd EXCEPT !.metadata = NoData,
               !.stores[part] =
                   IF Family(part) = "table" THEN ServerPutTable(@, req)
                   ELSE [i \in {0} |-> [written |-> TRUE, value |-> req.content]]]

\* the server's handling of a PUT to a part: the part's store takes the
\* payload; nothing else of the node changes
ServerPut(nd, part, req) ==
    [nd EXCEPT !.stores[part] =
                   IF Family(part) = "table" THEN ServerPutTable(@, req)
                   ELSE [i \in {0} |-> [written |-> TRUE, value |-> req.content]]]

\* parts[name].read(): a table through the table client, the others as stored
PartRead(nd, part) ==
    IF Family(part) = "table" THEN client_read(nd.stores[part], 1, NoColumns)
    ELSE IF nd.stores[part][0].written
    THEN [ok |-> TRUE, value |-> nd.stores[part][0].value]
    ELSE [ok |-> FALSE, value |-> NoData]

NoResult == [op |-> "none", part |-> "", ok |-> FALSE, value |-> NoData]

NothingWritten ==
    [metadata |-> NoData, parts |-> [p \in Parts |-> [times |-> "never", data |-> NoData]]]

CreateConsolidated(md) ==
    /\ ~node.created
    /\ node' = create_consolidated(Parts, md)
    /\ wrote' = [wrote EXCEPT !.metadata = md]
    /\ got' = NoResult
    /\ UNCHANGED <<seqVars, tableVars>>

WritePart(part, data) ==
    /\ node.created
    /\ node' = ServerPut(node, part, PartWriteRequest(part, data))
    /\ wrote' = [wrote EXCEPT !.parts[part] =
                    [times |-> IF @.times = "never" THEN "once" ELSE "again",
                     data |-> data]]
    /\ got' = NoResult
    /\ UNCHANGED <<seqVars, tableVars>>

ReadPart(part) ==
    /\ node.created
    /\ got' = [op |-> "read", part |-> part] @@ PartRead(node, part)
    /\ UNCHANGED <<node, wrote, seqVars, tableVars>>

ReadMetadata ==
    /\ node.created
    /\ got' = [op |-> "metadata", part |-> "", ok |-> TRUE, value |-> node.metadata]
    /\ UNCHANGED <<node, wrote, seqVars, tableVars>>

NextNode ==
    \/ \E md \in Metadatas : CreateConsolidated(md)
    \/ \E part \in Parts : \E data \in Datasets(part) : WritePart(part, data)
    \/ \E part \in Parts : ReadPart(part)
    \/ ReadMetadata

\* ------------------------------------------------------------------------
\* Looking a name up on a consolidated node
\* ------------------------------------------------------------------------

\* the name of a part that is also the name of a column of table2
ColumnNamedPart == "E"

\* the sets of parts a node may be created with: any of the fixture's parts,
\* with or without a part that bears the name of a table's column
PartSets == (SUBSET (Parts \cup {ColumnNamedPart})) \ {{}}

\* the names a client may look up: every column, every part, and a stranger
Names == {"A", "B", "C", "D", "E", "table1", "table2", "A1", "AWK", "SPS", "nope"}

\* the columns of a part's declared structure (TableStructure.from_pandas)
PartColumns(part) ==
    IF part = "table1" THEN <<"A", "B">>
    ELSE IF part = "table2" THEN <<"C", "D", "E">>
    ELSE << >>

\* __iter__ of the table client: the columns of its structure
table_iter(part) == {PartColumns(part)[c] : c \in DOMAIN PartColumns(part)}

\* the table-family parts of the node that expose a column of that name
Exposing(nd, name) ==
    {p \in DOMAIN nd.stores : Family(p) = "table" /\ name \in table_iter(p)}

NoItem == [kind |-> "none", part |-> "", name |-> ""]

ColumnItem(part, name) == [kind |-> "column", part |-> part, name |-> name]

PartItem(part) == [kind |-> "part", part |-> part, name |-> part]

\* GET <self link of the node>/<name>: a column of a table part first, a part
\* of that name second, 404 otherwise
ServerLookup(nd, name) ==
    IF Exposing(nd, name) # {}
    THEN [status |-> 200,
          item |-> ColumnItem(CHOOSE p \in Exposing(nd, name) : TRUE, name)]
    ELSE IF name \in DOMAIN nd.stores
    THEN [status |-> 200, item |-> PartItem(name)]
    ELSE [status |-> 404, item |-> NoItem]

\* a slip: the 404 is passed on as the ClientError it arrived as
client_getitem_reraise(nd, column) ==
    LET resp == ServerLookup(nd, column)
    IN IF resp.status # 200
       THEN [ok |-> FALSE, exc |-> "ClientError", value |-> NoItem]
       ELSE [ok |-> TRUE, exc |-> "none", value |-> resp.item]

\* __getitem__(column): GET of the child link; a 404 is raised as KeyError,
\* any other failure as it is; the item of the answer becomes a client
client_getitem(nd, column) ==
    LET resp == ServerLookup(nd, column)
    IN IF resp.status = 404
       THEN [ok |-> FALSE, exc |-> "KeyError", value |-> NoItem]
       ELSE IF resp.status # 200
       THEN [ok |-> FALSE, exc |-> "ClientError", value |-> NoItem]
       ELSE [ok |-> TRUE, exc |-> "none", value |-> resp.item]

\* iterating the node: the columns of its table parts and the names of its
\* other parts
node_iter(nd) ==
    UNION {table_iter(p) : p \in {q \in DOMAIN nd.stores : Family(q) = "table"}}
    \cup {p \in DOMAIN nd.stores : Family(p) # "table"}

\* create_consolidated with a chosen list of DataSources
CreateConsolidatedOf(parts, md) ==
    /\ ~node.created
    /\ node' = create_consolidated(parts, md)
    /\ wrote' = [wrote EXCEPT !.metadata = md]
    /\ got' = NoResult
    /\ UNCHANGED <<seqVars, tableVars>>

\* client["x"][name]
NodeGetItem(name) ==
    /\ node.created
    /\ got' = [op |-> "getitem", part |-> name] @@ client_getitem(node, name)
    /\ UNCHANGED <<node, wrote, seqVars, tableVars>>

\* list(client["x"])
NodeIter ==
    /\ node.created
    /\ got' = [op |-> "iter", part |-> "", ok |-> TRUE, value |-> node_iter(node)]
    /\ UNCHANGED <<node, wrote, seqVars, tableVars>>

NextLookup ==
    \/ \E parts \in PartSets, md \in Metadatas : CreateConsolidatedOf(parts, md)
    \/ \E name \in Names : NodeGetItem(name)
    \/ NodeIter

\* ------------------------------------------------------------------------
\* Concurrent writers of the partitions of one table DataSource
\* ------------------------------------------------------------------------

\* the clients that write concurrently
Writers == {"w1", "w2"}

\* the dataframes a client may write to a partition
TableFrames ==
    {DataFrame(<<"A", "B">>, <<<<1, 10>>, <<2, 20>>>>),
     DataFrame(<<"A", "B">>, <<<<3, 30>>, <<4, 40>>>>)}

\* the columns argument of a full read
ColumnChoices == {NoColumns, Columns(<<"B">>)}

NoLock == "free"

NoRequest == [method |-> "none", link |-> "", index |-> 0,
              content |-> serialize_arrow(DataFrame(<< >>, << >>))]

IdleWriter == [pc |-> "idle", req |-> NoRequest, stored |-> 0]

NoFrame == [op |-> "none", columns |-> NoColumns] @@ ClientError

PartitionsOf(t) == 0..(t.npartitions - 1)

NoTable == [npartitions |-> 0, store |-> << >>, lock |-> << >>]

NoWriters == [w \in Writers |-> IdleWriter]

\* a slip: a writer does not wait for the partition's lock
CanLockAnyway(lock, index) == TRUE

\* the server serializes the writers of one (DataSource, partition) key: a
\* writer starts on a partition only while no other writer holds it
CanLock(lock, index) == lock[index] = NoLock

\* the client calls write_partition(df, partition): the PUT is on its way
WritePartition(w, df, partition) ==
    /\ writers[w].pc = "idle"
    /\ writers' = [writers EXCEPT ![w] =
                      [pc |-> "sent", req |-> client_write_partition(df, partition),
                       stored |-> 0]]
    /\ sent' = [sent EXCEPT
                   ![partition].times = IF @ = "never" THEN "once" ELSE "again",
                   ![partition].raced =
                       @ \/ \E v \in Writers \ {w} :
                               /\ writers[v].pc # "idle"
                               /\ writers[v].req.index = partition]
    /\ frame' = NoFrame
    /\ UNCHANGED <<table, seqVars, nodeVars>>

\* the server starts on the request: it takes the partition and empties it
ServerBegin(w) ==
    LET index == writers[w].req.index
    IN /\ writers[w].pc = "sent"
       /\ CanLock(table.lock, index)
       /\ table' = [table EXCEPT
                       !.lock[index] = w,
                       !.store[index] =
                           StoredFrame(DataFrame(writers[w].req.content.fields, << >>))]
       /\ writers' = [writers EXCEPT ![w].pc = "storing"]
       /\ sent' = [sent EXCEPT ![index].df = deserialize_arrow(writers[w].req.content)]
       /\ UNCHANGED <<frame, seqVars, nodeVars>>

\* the server stores the next row of the payload
ServerStoreRow(w) ==
    LET index == writers[w].req.index
        df == deserialize_arrow(writers[w].req.content)
        k == writers[w].stored + 1
    IN /\ writers[w].pc = "storing"
       /\ k <= Len(df.rows)
       /\ table' = [table EXCEPT !.store[index].rows = Append(@, df.rows[k])]
       /\ writers' = [writers EXCEPT ![w].stored = k]
       /\ UNCHANGED <<sent, frame, seqVars, nodeVars>>

\* the payload is stored: the server gives the partition up and answers
ServerEnd(w) ==
    LET index == writers[w].req.index
    IN /\ writers[w].pc = "storing"
       /\ writers[w].stored = writers[w].req.content.num_rows
       /\ table' = [table EXCEPT !.lock[index] = NoLock]
       /\ writers' = [writers EXCEPT ![w] = IdleWriter]
       /\ UNCHANGED <<sent, frame, seqVars, nodeVars>>

Quiet == \A w \in Writers : writers[w].pc = "idle"

\* a full read once the writes have been answered (the result of a read that
\* overlaps a write is not defined)
ReadTable(columns) ==
    /\ Quiet
    /\ frame' = [op |-> "read", columns |-> columns]
                @@ client_read(table.store, table.npartitions, columns)
    /\ UNCHANGED <<table, writers, sent, seqVars, nodeVars>>

\* the columns of the table's declared structure
TableColumns == <<"A", "B">>

\* the partition indices a client may ask for, inside and outside the grid
PartitionArgs == (0 - 2)..(MaxPartitions + 1)

\* the columns argument of read_partition: None, an empty list, columns of
\* the table, a column the table does not have
PartitionColumnChoices ==
    {NoColumns, Columns(<< >>), Columns(<<"B">>), Columns(<<"B", "A">>),
     Columns(<<"Z">>)}

\* read_partition(partition, columns) once the writes have been answered
ReadPartition(partition, columns) ==
    /\ Quiet
    /\ frame' = [op |-> "read_partition", columns |-> columns,
                 partition |-> partition]
                @@ client_read_partition(table.store, table.npartitions,
                                         TableColumns, partition, columns)
    /\ UNCHANGED <<table, writers, sent, seqVars, nodeVars>>

NextTable ==
    \/ \E w \in Writers, df \in TableFrames, partition \in PartitionsOf(table) :
          WritePartition(w, df, partition)
    \/ \E w \in Writers : ServerBegin(w)
    \/ \E w \in Writers : ServerStoreRow(w)
    \/ \E w \in Writers : ServerEnd(w)
    \/ \E columns \in ColumnChoices : ReadTable(columns)
    \/ \E partition \in PartitionArgs, columns \in PartitionColumnChoices :
          ReadPartition(partition, columns)

\* ------------------------------------------------------------------------
\* Specifications: each component on its own, the others at rest
\* ------------------------------------------------------------------------

\* an adapter constructed without a structure over 1..MaxFiles files
InitSeq ==
    /\ \E n \in 1..MaxFiles : filepaths = [k \in 1..n |-> k - 1]
    /\ slab \in SlabShapes
    /\ structure = InferStructure(filepaths, slab)
    /\ assets = << >>
    /\ history = {}
    /\ call = NoCall
    /\ out = NoOutcome
    /\ node = NoNode
    /\ wrote = NothingWritten
    /\ got = NoResult
    /\ table = NoTable
    /\ writers = NoWriters
    /\ sent = << >>
    /\ frame = NoFrame

\* the server before the fixture creates the node
InitNode ==
    /\ node = NoNode
    /\ wrote = NothingWritten
    /\ got = NoResult
    /\ filepaths = << >>
    /\ slab = << >>
    /\ structure = [shape |-> << >>, chunks |-> << >>]
    /\ assets = << >>
    /\ history = {}
    /\ call = NoCall
    /\ out = NoOutcome
    /\ table = NoTable
    /\ writers = NoWriters
    /\ sent = << >>
    /\ frame = NoFrame

\* a freshly created table DataSource of 1..MaxPartitions partitions
InitTable ==
    /\ \E n \in 1..MaxPartitions :
          /\ table = [npartitions |-> n,
                      store |-> [i \in 0..(n - 1) |-> Unwritten],
                      lock |-> [i \in 0..(n - 1) |-> NoLock]]
          /\ sent = [i \in 0..(n - 1) |->
                        [times |-> "never", raced |-> FALSE,
                         df |-> DataFrame(<< >>, << >>)]]
    /\ writers = NoWriters
    /\ frame = NoFrame
    /\ filepaths = << >>
    /\ slab = << >>
    /\ structure = [shape |-> << >>, chunks |-> << >>]
    /\ assets = << >>
    /\ history = {}
    /\ call = NoCall
    /\ out = NoOutcome
    /\ node = NoNode
    /\ wrote = NothingWritten
    /\ got = NoResult

\* an adapter built by from_assets from the assets of a DataSource
InitAssets ==
    /\ \E n \in 1..MaxFiles :
          /\ assets \in AssetLists(n)
          /\ slab \in SlabShapes
          /\ structure = DeclaredStructure(n, slab)
    /\ filepaths = from_assets(assets)
    /\ history = {}
    /\ call = NoCall
    /\ out = NoOutcome
    /\ node = NoNode
    /\ wrote = NothingWritten
    /\ got = NoResult
    /\ table = NoTable
    /\ writers = NoWriters
    /\ sent = << >>
    /\ frame = NoFrame

\* the file-sequence adapter
Spec == InitSeq /\ [][NextSeq]_vars

\* the file-sequence adapter of an externally managed DataSource
SpecAssets == InitAssets /\ [][NextSeq]_vars

\* the consolidated node
SpecNode == InitNode /\ [][NextNode]_vars

\* the partitioned table and its writers
SpecTable == InitTable /\ [][NextTable]_vars

\* names looked up on consolidated nodes of any set of parts
SpecLookup == InitNode /\ [][NextLookup]_vars

\* ------------------------------------------------------------------------
\* Properties of FileSequenceAdapter.read and read_block
\* ------------------------------------------------------------------------

NFiles == Len(filepaths)

\* o is the stack, in file order, of the slabs of the files at positions a..b-1,
\* and exactly those files were opened
IsStackOf(o, a, b) ==
    /\ o.exc = "none"
    /\ o.opened = {FileAt(filepaths, k) : k \in a..(b - 1)}
    /\ o.shape = <<b - a>> \o slab
    /\ o.data = [idx \in Coords(<<b - a>> \o slab) |->
                    Pixel(FileAt(filepaths, a + idx[1]), Tail(idx))]

\* C1: read loads exactly the files the leading selector addresses: every file
\* for Ellipsis (shape (N,*S)); file i alone for an integer 0 <= i < N (shape
\* S); files a..b-1 for slice(a,b) with 0 <= a <= b <= N (shape (b-a,*S)).
C1_ReadLoadsAddressedFiles ==
    call.op = "read" =>
        /\ (call.sel.t = "Ellipsis" => IsStackOf(out, 0, NFiles))
        /\ (call.sel.t = "int" /\ 0 <= call.sel.v /\ call.sel.v < NFiles =>
               /\ out.exc = "none"
               /\ out.opened = {FileAt(filepaths, call.sel.v)}
               /\ out.shape = slab
               /\ out.data = [idx \in Coords(slab) |->
                                 Pixel(FileAt(filepaths, call.sel.v), idx)])
        /\ (/\ call.sel.t = "slice"
            /\ call.sel.start # NoneInt
            /\ call.sel.stop # NoneInt
            /\ 0 <= call.sel.start[1]
            /\ call.sel.start[1] <= call.sel.stop[1]
            /\ call.sel.stop[1] <= NFiles
            => IsStackOf(out, call.sel.start[1], call.sel.stop[1]))

C1_Witness ==
    /\ NFiles = 3
    /\ call.op = "read"
    /\ call.sel = SliceV(SomeInt(1), SomeInt(3))
    /\ out.opened = {FileAt(filepaths, 1), FileAt(filepaths, 2)}
    /\ out.shape = <<2>> \o slab

IsPlainBlockCall ==
    /\ call.op = "read_block"
    /\ call.sel = EllipsisV
    /\ \A k \in 2..Len(call.block) : call.block[k] = 0
    /\ 0 <= call.block[1]
    /\ call.block[1] < NFiles

\* C3 as stated: read_block((i,0,...,0)) returns a value equal to read(i), of
\* the same shape S and the same elements, and loads exactly file i.
C3_ReadBlockEqualsReadInt ==
    IsPlainBlockCall =>
        LET r == read(filepaths, slab, IntV(call.block[1]))
        IN /\ out.exc = "none"
           /\ out.shape = r.shape
           /\ out.data = r.data
           /\ out.opened = {FileAt(filepaths, call.block[1])}

\* C3 as amended: read_block((i,0,...,0)) returns the chunk of shape (1,*S)
\* whose only leading entry equals read(i), and loads exactly file i.
C3_ReadBlockIsChunkOfReadInt ==
    IsPlainBlockCall =>
        LET r == read(filepaths, slab, IntV(call.block[1]))
        IN /\ out.exc = "none"
           /\ r.exc = "none"
           /\ r.shape = slab
           /\ out.shape = <<1>> \o r.shape
           /\ \A idx \in Coords(r.shape) : out.data[<<0>> \o idx] = r.data[idx]
           /\ out.opened = {FileAt(filepaths, call.block[1])}

C3_Witness ==
    /\ NFiles = 3
    /\ IsPlainBlockCall
    /\ call.block[1] = 2
    /\ out.shape = <<1>> \o slab
    /\ out.opened = {FileAt(filepaths, 2)}

\* C4: read_block with a leading block index outside 0..N-1 is an error; it
\* returns neither an empty result nor the data of another file.
C4_BlockOutsideGridIsError ==
    (/\ call.op = "read_block"
     /\ \A k \in 2..Len(call.block) : call.block[k] = 0
     /\ (call.block[1] < 0 \/ call.block[1] >= NFiles))
    => out.exc # "none"

\* C5: read_block with a nonzero block index on a trailing dimension raises
\* IndexError, for every leading index and every slice, and loads no file.
C5_TrailingBlockIndexRaises ==
    (/\ call.op = "read_block"
     /\ \E k \in 2..Len(call.block) : call.block[k] # 0)
    =>
    /\ out.exc = "IndexError"
    /\ out.opened = {}
    /\ out.trace = << >>

C5_Witness ==
    /\ call.op = "read_block"
    /\ call.block = <<0, 0, 1>>
    /\ out.exc = "IndexError"
    /\ out.opened = {}

\* C6: read raises for a malformed selector and loads no file: a selector that
\* is no Ellipsis, integer, slice or tuple, and a tuple of two or more whose
\* leading element is no integer, Ellipsis or slice.
C6_MalformedSelectorRaises ==
    (/\ call.op = "read"
     /\ \/ call.sel.t \notin {"Ellipsis", "int", "slice", "tuple"}
        \/ /\ call.sel.t = "tuple"
           /\ Len(call.sel.items) >= 2
           /\ Head(call.sel.items).t \notin {"Ellipsis", "int", "slice"})
    =>
    /\ out.exc \in {"RuntimeError", "UnboundLocalError"}
    /\ out.opened = {}
    /\ out.trace = << >>

C6_Witness ==
    /\ call.op = "read"
    /\ call.sel = TupleV(<<NoneV, IntV(0)>>)
    /\ out.exc = "UnboundLocalError"
    /\ out.opened = {}

RECURSIVE SumOf(_)
SumOf(lengths) ==
    IF lengths = << >> THEN 0 ELSE Head(lengths) + SumOf(Tail(lengths))

\* the descriptor the claim describes for N files of slab shape S
IsPerFileChunking(d) ==
    /\ d.shape = <<NFiles>> \o slab
    /\ Len(d.chunks) = Len(d.shape)
    /\ Len(d.chunks[1]) = NFiles
    /\ \A k \in 1..NFiles : d.chunks[1][k] = 1
    /\ \A j \in 2..Len(d.shape) : d.chunks[j] = <<slab[j - 1]>>
    /\ \A j \in 1..Len(d.shape) : SumOf(d.chunks[j]) = d.shape[j]

\* C13: an adapter constructed without a structure over N >= 1 files of slab
\* shape S holds the structure of shape (N,*S) with N chunks of length 1 along
\* the leading dimension and one full chunk along every other, the chunk
\* lengths of every dimension summing to its shape entry; structure() returns
\* that descriptor after any sequence of read and read_block calls.
C13_InferredStructureStable ==
    /\ IsPerFileChunking(structure)
    /\ call.op = "structure" => out.exc = "none" /\ IsPerFileChunking(out.descriptor)

C13_Witness ==
    /\ NFiles = 3
    /\ slab = <<SlabLen, SlabLen>>
    /\ history = {"read", "read_block"}
    /\ call.op = "structure"
    /\ out.descriptor = [shape |-> <<3, SlabLen, SlabLen>>,
                         chunks |-> <<<<1, 1, 1>>, <<SlabLen>>, <<SlabLen>>>>]

\* the file of the asset that bears the ordinal num
FileOfNum(num) ==
    path_from_uri((CHOOSE a \in {assets[j] : j \in DOMAIN assets} : a.num = num).data_uri)

\* C14: an adapter built from the assets of a DataSource reads slab k of the
\* logical array (k = 0..N-1) from the asset with num = k + 1, in whatever
\* order the assets are listed, and a full read is the slabs in num order.
C14_FilesOrderedByNum ==
    (assets # << >> /\ call.op = "read") =>
        /\ (call.sel = EllipsisV =>
               /\ out.exc = "none"
               /\ out.shape = <<NFiles>> \o slab
               /\ out.data = [idx \in Coords(<<NFiles>> \o slab) |->
                                 Pixel(FileOfNum(idx[1] + 1), Tail(idx))])
        /\ (call.sel.t = "int" /\ 0 <= call.sel.v /\ call.sel.v < NFiles =>
               /\ out.exc = "none"
               /\ out.opened = {FileOfNum(call.sel.v + 1)})

\* ------------------------------------------------------------------------
\* Properties of the consolidated node
\* ------------------------------------------------------------------------

C10_PartWritesKeepMetadata ==
    /\ (got.op = "metadata" => got.ok /\ got.value = wrote.metadata)
    /\ (node.created => node.metadata = wrote.metadata)

C10_Witness ==
    /\ got.op = "metadata"
    /\ got.value = [md_key1 |-> "md_val1", md_key2 |-> 2]
    /\ \A p \in Parts : wrote.parts[p].times # "never"
    /\ wrote.parts["table1"].times = "again"

\* C11: a name looked up on a consolidated node resolves to the column of a
\* table part that exposes it; failing that, to the part of that name; failing
\* that, the client raises KeyError. Every name the node yields on iteration
\* resolves.
C11_LookupOrder ==
    /\ got.op = "getitem" =>
          IF Exposing(node, got.part) # {}
          THEN /\ got.ok
               /\ got.value.kind = "column"
               /\ got.value.name = got.part
               /\ got.value.part \in DOMAIN node.stores
               /\ Family(got.value.part) = "table"
               /\ \E c \in DOMAIN PartColumns(got.value.part) :
                     PartColumns(got.value.part)[c] = got.part
          ELSE IF got.part \in DOMAIN node.stores
          THEN got.ok /\ got.value = PartItem(got.part)
          ELSE ~got.ok /\ got.exc = "KeyError"
    /\ got.op = "iter" =>
          \A name \in got.value : client_getitem(node, name).ok

C11_Witness ==
    /\ got.op = "getitem"
    /\ got.part = ColumnNamedPart
    /\ {"table2", ColumnNamedPart} \subseteq DOMAIN node.stores
    /\ got.ok
    /\ got.value = ColumnItem("table2", "E")

\* ------------------------------------------------------------------------
\* Properties of the partitioned table
\* ------------------------------------------------------------------------

\* the rows of the latest payloads of partitions 0..k-1, in index order
RECURSIVE RowsSent(_)
RowsSent(k) ==
    IF k = 0 THEN << >> ELSE RowsSent(k - 1) \o sent[k - 1].df.rows

\* the table read in full after one full write of df to a fresh DataSource
FullWriteThenRead(df, columns) ==
    client_read(ServerPutTable([i \in PartitionsOf(table) |-> Unwritten],
                               client_write(df)),
                table.npartitions, columns)

\* C8: once every partition 0..npartitions-1 has been written once, in any
\* order and interleaving, a full read returns the partitions in index order
\* and equals the result of a single full write of the same data.
C8_PartitionWritesCommute ==
    (frame.op = "read" /\ \A i \in PartitionsOf(table) : sent[i].times = "once")
    =>
    LET whole == DataFrame(sent[0].df.columns, RowsSent(table.npartitions))
    IN /\ frame.ok
       /\ frame.columns = NoColumns => frame.value = whole
       /\ frame.ok = FullWriteThenRead(whole, frame.columns).ok
       /\ frame.value = FullWriteThenRead(whole, frame.columns).value

C8_Witness ==
    /\ table.npartitions = MaxPartitions
    /\ frame.op = "read"
    /\ frame.ok
    /\ frame.columns = NoColumns
    /\ \A i \in PartitionsOf(table) : sent[i].times = "once"
    /\ sent[0].df # sent[MaxPartitions - 1].df
    /\ Len(frame.value.rows) = Len(sent[0].df.rows) * MaxPartitions

\* the writers whose request for partition i the server is storing
Storing(i) == {w \in Writers : writers[w].pc = "storing" /\ writers[w].req.index = i}

\* C9: writes to one partition exclude each other: while a writer stores, the
\* partition holds rows of its payload only, and once no writer is storing
\* the partition is entirely the payload of the last writer, never a mix.
C9_SamePartitionWritesExclusive ==
    \A i \in PartitionsOf(table) :
        /\ Cardinality(Storing(i)) <= 1
        /\ \A w \in Storing(i) :
              /\ table.lock[i] = w
              /\ table.store[i].rows =
                     SubSeq(deserialize_arrow(writers[w].req.content).rows,
                            1, writers[w].stored)
        /\ (Storing(i) = {} /\ sent[i].times # "never" /\ table.store[i].written
               => /\ table.store[i] = StoredFrame(sent[i].df)
                  /\ sent[i].df \in TableFrames)

C9_Witness ==
    \E i \in PartitionsOf(table) :
        /\ sent[i].raced
        /\ sent[i].times = "again"
        /\ Quiet
        /\ table.store[i] = StoredFrame(sent[i].df)
        /\ frame.op = "read"

\* C12: read_partition(p, columns) on a table of n partitions raises IndexError
\* and issues no fetch when p is outside 0..n-1; for p in 0..n-1 and columns
\* of the table it issues exactly one fetch, of partition p, whose field
\* parameters are the requested columns.
C12_ReadPartitionChecksIndex ==
    frame.op = "read_partition" =>
        IF frame.partition \notin PartitionsOf(table)
        THEN /\ frame.exc = "IndexError"
             /\ frame.requests = << >>
        ELSE MetaHas(TableColumns, frame.columns) =>
                /\ Len(frame.requests) = 1
                /\ frame.requests[1].partition = frame.partition
                /\ frame.requests[1].field = frame.columns.names
                /\ frame.exc # "IndexError"

C12_Witness ==
    /\ table.npartitions = MaxPartitions
    /\ frame.op = "read_partition"
    /\ frame.partition = MaxPartitions - 1
    /\ frame.columns = Columns(<<"B">>)
    /\ frame.requests = <<[partition |-> MaxPartitions - 1, field |-> <<"B">>]>>
    /\ frame.ok
    /\ frame.value.columns = <<"B">>
    /\ Len(frame.value.rows) = 2

====
